---------------------------- MODULE Spec2Model ----------------------------
(***************************************************************************)
(* A model of src/app.py: RealEstateDashboard, one execution of the script *)
(* (construction, then run()).  The data file on disk is the input; the    *)
(* widget values the user has chosen are inputs of the step reading them.  *)
(***************************************************************************)
EXTENDS Integers, Sequences, FiniteSets, TLC

-----------------------------------------------------------------------------
(* Bounds of the exploration *)

\* rows of a data file that has every column
MaxRows == 3
\* rows of a data file in which some column is absent
MaxRowsPartial == 2
\* required columns absent from a data file at once
MaxAbsentRequired == 1
\* rows of a data file whose views are filtered a second time
MaxRowsCompose == 2
\* rows of a data file made for the amenities table
MaxRowsAmenities == 3
\* rows of a data file made for the correlation step
MaxRowsCorrelation == 5

-----------------------------------------------------------------------------
(* Columns *)

RequiredColumns ==
    {"Price_in_Lakhs", "Size_in_SqFt", "Price_per_SqFt", "City", "Property_Type", "BHK"}

OptionalColumns ==
    {"Furnished_Status", "Parking_Space", "Amenities", "State", "Locality"}

AllColumns == RequiredColumns \cup OptionalColumns

-----------------------------------------------------------------------------
(* Numbers: a float is NaN or a fraction n/d in lowest terms, d > 0 *)

RECURSIVE GCD(_, _)
GCD(a, b) == IF b = 0 THEN a ELSE GCD(b, a % b)

Abs(x) == IF x < 0 THEN -x ELSE x

NaN == [nan |-> TRUE, n |-> 0, d |-> 1]

Frac(n, d) ==
    LET g == GCD(Abs(n), d)
    IN  [nan |-> FALSE, n |-> n \div g, d |-> d \div g]

Int2F(k) == Frac(k, 1)

FSub(a, b) ==
    IF a.nan \/ b.nan THEN NaN ELSE Frac(a.n * b.d - b.n * a.d, a.d * b.d)

\* a / b for b > 0
FDiv(a, b) ==
    IF a.nan \/ b.nan THEN NaN ELSE Frac(a.n * b.d, a.d * b.n)

\* a * k for an integer k
FScale(a, k) == IF a.nan THEN NaN ELSE Frac(a.n * k, a.d)

\* comparisons with NaN are False, as in IEEE arithmetic
FLess(a, b) == ~a.nan /\ ~b.nan /\ a.n * b.d < b.n * a.d

RECURSIVE IsPow2(_)
IsPow2(k) == IF k = 1 THEN TRUE ELSE IF k % 2 = 1 THEN FALSE ELSE IsPow2(k \div 2)

\* a binary float holds n/d exactly iff d is a power of two (small n)
Exact(a) == ~a.nan /\ IsPow2(a.d)

RECURSIVE SumSeq(_)
SumSeq(s) == IF s = <<>> THEN 0 ELSE Head(s) + SumSeq(Tail(s))

-----------------------------------------------------------------------------
(* Formatted numbers: what an f-string puts on the page *)

\* kind "num": sign and digits; "nan": the text nan; "n/a": the text N/A;
\* "empty": the empty string
Text(kind, sign, mag) == [kind |-> kind, sign |-> sign, mag |-> mag]

EmptyText == Text("empty", "", 0)

NotAvailable == Text("n/a", "", 0)

\* round() of the float formatting: to nearest, a tie to the even neighbour
RoundHalfEven(n, d) ==
    LET q == n \div d
        r == n % d
    IN  IF 2 * r < d THEN q
        ELSE IF 2 * r > d THEN q + 1
        ELSE IF q % 2 = 0 THEN q ELSE q + 1

Sign(a, plus) == IF a.n < 0 THEN "-" ELSE IF plus THEN "+" ELSE ""

\* f"{a:.0f}" (plus = FALSE) and f"{a:+.0f}" (plus = TRUE)
Fmt0(a, plus) ==
    IF a.nan THEN Text("nan", IF plus THEN "+" ELSE "", 0)
    ELSE Text("num", Sign(a, plus), RoundHalfEven(Abs(a.n), a.d))

\* f"{k:,}" and f"{k:+,}" of an integer
FmtInt(k, plus) == Text("num", IF k < 0 THEN "-" ELSE IF plus THEN "+" ELSE "", Abs(k))

\* f"{(a - b):+.0f}": the subtraction is exact when both floats are; when one
\* is not and a - b is half-way between two integers, the float difference
\* lies just to either side of the tie
FmtDelta(a, b) ==
    LET x == FSub(a, b)
    IN  IF ~x.nan /\ x.d = 2 /\ ~(Exact(a) /\ Exact(b))
          THEN {Text("num", Sign(x, TRUE), Abs(x.n) \div 2),
                Text("num", Sign(x, TRUE), Abs(x.n) \div 2 + 1)}
          ELSE {Fmt0(x, TRUE)}

-----------------------------------------------------------------------------
(* The data file *)

\* a cell of the Amenities column: NaN, or its text, a character at a time
NA == [na |-> TRUE, text |-> <<>>]

Str(chars) == [na |-> FALSE, text |-> chars]

GymPool == Str(<<"G", "y", "m", ",", " ", "P", "o", "o", "l">>)

CarParking == Str(<<"c", "a", "r", " ", "p", "a", "r", "k", "i", "n", "g">>)

GardenLift == Str(<<"G", "a", "r", "d", "e", "n", ",", " ", "L", "i", "f", "t">>)

NoText == Str(<<>>)

\* a listing: price, size, persisted price per area, city, property type,
\* bedroom count, parking spaces, amenities
Listing(price, size, pps, city, ptype, bhk, parking, amenities) ==
    [price |-> price, size |-> size, pps |-> pps, city |-> city, ptype |-> ptype,
     bhk |-> bhk, parking |-> parking, amenities |-> amenities]

\* listings a data file is made of
Listings ==
    { Listing(1, 1, 2, "A", "Flat",  2, 1, GymPool),
      Listing(3, 2, 1, "B", "Villa", 3, 1, NA),
      Listing(3, 1, 4, "A", "Flat",  3, 0, CarParking),
      Listing(2, 2, 2, "B", "Flat",  2, 2, GardenLift) }

SeqsUpTo(S, n) == UNION {[1..k -> S] : k \in 0..n}

\* read_csv gives the rows a RangeIndex: row i of the file has label i-1
Row(i, l) ==
    [idx |-> i - 1, price |-> l.price, size |-> l.size, pps |-> l.pps,
     city |-> l.city, ptype |-> l.ptype, bhk |-> l.bhk,
     parking |-> l.parking, amenities |-> l.amenities]

Frame(ls) == [i \in 1..Len(ls) |-> Row(i, ls[i])]

ColumnSets ==
    {AllColumns \ absent : absent \in
        {a \in SUBSET AllColumns :
            \/ a \subseteq OptionalColumns
            \/ a \subseteq RequiredColumns /\ Cardinality(a) <= MaxAbsentRequired}}

\* listings that differ in their amenities and price per area only
AmenityListings ==
    { Listing(1, 1, 0, "A", "Flat", 2, 1, Str(<<"g", "y", "m">>)),
      Listing(1, 1, 2, "A", "Flat", 2, 1, GymPool),
      Listing(1, 1, 3, "A", "Flat", 2, 1, NoText),
      Listing(1, 1, 0, "A", "Flat", 2, 1, NA) }

\* the price columns of the files made for the correlation step: against the
\* sizes 1, 2, 3, ... the first five prices correlate at 0.7, -0.7, 0.3, -0.3,
\* 0.5 and 0
PriceOrders ==
    { <<1, 2, 4, 5, 3, 6>>, <<3, 5, 4, 2, 1, 6>>, <<1, 3, 5, 4, 2, 6>>, <<2, 4, 5, 3, 1, 6>>,
      <<1, 4, 2, 5, 3, 6>>, <<2, 5, 3, 1, 4, 6>> }

\* the first n listings of such a file: row i has the size i
CorrelationListings(prices, n) ==
    [i \in 1..(IF n < Len(prices) THEN n ELSE Len(prices)) |->
        Listing(prices[i], i, 1, "A", "Flat", 2, 1, NoText)]

\* the header line of the data file: its columns from left to right
DatasetHeader ==
    <<"State", "City", "Locality", "Property_Type", "BHK", "Size_in_SqFt",
      "Price_in_Lakhs", "Price_per_SqFt", "Furnished_Status", "Parking_Space", "Amenities">>

\* a file with the columns cs in the order of the header h
File(h, cs, rows) ==
    [exists |-> TRUE, cols |-> cs, header |-> SelectSeq(h, LAMBDA c : c \in cs), rows |-> rows]

NoFile == [exists |-> FALSE, cols |-> {}, header |-> <<>>, rows |-> <<>>]

DataFiles ==
    {NoFile}
    \cup {File(DatasetHeader, AllColumns, Frame(ls)) : ls \in SeqsUpTo(Listings, MaxRows)}
    \cup {File(DatasetHeader, cs, Frame(ls)) :
            cs \in ColumnSets, ls \in SeqsUpTo(Listings, MaxRowsPartial)}

-----------------------------------------------------------------------------
(* State *)

VARIABLES
    csv,          \* cleaned_india_housing_prices.csv as it is on disk
    pc,           \* position of the script
    df,           \* self.df
    columns,      \* self.df.columns
    header,       \* self.df.columns, from left to right
    criteria,     \* the widget values held by display_sidebar_filters
    filtered_df,  \* the view run() passes to every section
    steps,        \* the sections begun so far, in order
    metrics,      \* the st.metric calls of display_key_metrics, in order
    sections,     \* the guarded sections met so far: rendered or skipped
    insights,     \* the insights list of display_insights_summary
    error,        \* the exception that ended the script, if any
    city_avg_price,    \* the top cities by average price (price analysis)
    city_counts,       \* the top cities by property count (location analysis)
    city_stats,        \* the city statistics table (location analysis)
    amenity_analysis,  \* the rows of the amenities table (features)
    corr_matrix,       \* the correlation matrix, or <<>> before it is computed
    top_pos,           \* the lines under Top Positive Correlations
    top_neg,           \* the lines under Top Negative Correlations
    corr_metrics       \* the st.metric calls of Price Correlation Insights

location_tables == <<city_counts, city_stats>>

correlations == <<corr_matrix, top_pos, top_neg, corr_metrics>>

vars == <<csv, pc, df, columns, header, criteria, filtered_df, steps, metrics, sections,
          insights, error, city_avg_price, location_tables, amenity_analysis, correlations>>

NoError == [kind |-> "none", key |-> "", at |-> ""]

Raised(kind, key, at) == [kind |-> kind, key |-> key, at |-> at]

\* corr_matrix before display_correlation_analysis computes it
NoMatrix == [cols |-> <<>>, at |-> <<>>]

\* display_sidebar_filters holds no widget values outside its call
NoCriteria ==
    [live |-> FALSE, min_price |-> 0, max_price |-> 0, min_size |-> 0, max_size |-> 0,
     cities |-> {}, types |-> {}, bhk |-> {}]

-----------------------------------------------------------------------------
(* Column access *)

Val(r, col) ==
    CASE col = "Price_in_Lakhs" -> r.price
      [] col = "Size_in_SqFt"   -> r.size
      [] col = "Price_per_SqFt" -> r.pps
      [] col = "City"           -> r.city
      [] col = "Property_Type"  -> r.ptype
      [] col = "BHK"            -> r.bhk
      [] col = "Parking_Space"  -> r.parking

Column(view, col) == [i \in 1..Len(view) |-> Val(view[i], col)]

Unique(view, col) == {Val(view[i], col) : i \in 1..Len(view)}

ColMin(view, col) == CHOOSE v \in Unique(view, col) : \A w \in Unique(view, col) : v <= w

ColMax(view, col) == CHOOSE v \in Unique(view, col) : \A w \in Unique(view, col) : v >= w

\* the order of str, used by groupby to sort its keys
LexOrder == <<"A", "B", "Flat", "Villa">>

LexRank(label) == CHOOSE i \in 1..Len(LexOrder) : LexOrder[i] = label

-----------------------------------------------------------------------------
(* Statistics of a column *)

\* Series.mean(): NaN over no rows
Mean(vals) == IF Len(vals) = 0 THEN NaN ELSE Frac(SumSeq(vals), Len(vals))

Count(vals, v) == Cardinality({i \in 1..Len(vals) : vals[i] = v})

Values(vals) == {vals[i] : i \in 1..Len(vals)}

RECURSIVE SortAscending(_)
SortAscending(S) ==
    IF S = {} THEN <<>>
    ELSE LET m == CHOOSE v \in S : \A w \in S : v <= w
         IN  <<m>> \o SortAscending(S \ {m})

RECURSIVE GCDSeq(_)
GCDSeq(s) == IF s = <<>> THEN 0 ELSE GCD(Abs(Head(s)), GCDSeq(Tail(s)))

\* the deviation of each value from the mean, in the largest unit that makes
\* them all integers (skewness and correlation do not depend on the unit)
Deviations(vals) ==
    LET scaled == [i \in 1..Len(vals) |-> Len(vals) * vals[i] - SumSeq(vals)]
        unit   == GCDSeq(scaled)
    IN  IF unit = 0 THEN scaled ELSE [i \in 1..Len(vals) |-> scaled[i] \div unit]

Dot(xs, ys) == SumSeq([i \in 1..Len(xs) |-> xs[i] * ys[i]])

Cube(xs) == [i \in 1..Len(xs) |-> xs[i] * xs[i] * xs[i]]

\* the key x sorts before the key y: the greater first, NaN last
Before(x, y) == (~x.nan /\ y.nan) \/ FLess(y, x)

\* two sorted runs of places merged, a place of the first run going first
\* unless its key sorts after
RECURSIVE Merge(_, _, _)
Merge(a, b, keys) ==
    IF a = <<>> THEN b
    ELSE IF b = <<>> THEN a
    ELSE IF Before(keys[b[1]], keys[a[1]])
           THEN <<b[1]>> \o Merge(a, Tail(b), keys)
           ELSE <<a[1]>> \o Merge(Tail(a), b, keys)

\* the places lo..hi in descending order of their keys
RECURSIVE Order(_, _, _)
Order(lo, hi, keys) ==
    IF lo > hi THEN <<>>
    ELSE IF lo = hi THEN <<lo>>
    ELSE Merge(Order(lo, (lo + hi) \div 2, keys), Order(((lo + hi) \div 2) + 1, hi, keys), keys)

\* the order sort_values(ascending=False) gives on short inputs: the places
\* of keys with the greatest key first, equal keys in the order they had, NaN
\* last
Descending(keys) == Order(1, Len(keys), keys)

\* the elements of s at the places, in that order
Reorder(s, places) == [k \in 1..Len(places) |-> s[places[k]]]

\* head(n) and tail(n)
HeadN(s, n) == SubSeq(s, 1, IF Len(s) < n THEN Len(s) ELSE n)

TailN(s, n) == SubSeq(s, (IF Len(s) < n THEN 0 ELSE Len(s) - n) + 1, Len(s))

\* Series.median(): the middle of the sorted values, NaN over no rows
Median(vals) ==
    LET sorted == Reorder(vals, Descending([i \in 1..Len(vals) |-> Int2F(-vals[i])]))
        n      == Len(vals)
    IN  IF n = 0 THEN NaN
        ELSE IF n % 2 = 1 THEN Int2F(sorted[(n + 1) \div 2])
        ELSE Frac(sorted[n \div 2] + sorted[(n \div 2) + 1], 2)

\* round(2)
Round2(a) ==
    IF a.nan THEN NaN
    ELSE Frac((IF a.n < 0 THEN -1 ELSE 1) * RoundHalfEven(Abs(a.n) * 100, a.d), 100)

\* the values of a column in the order they first appear
RECURSIVE FirstSeen(_)
FirstSeen(vals) ==
    IF vals = <<>> THEN <<>>
    ELSE <<Head(vals)>> \o SelectSeq(FirstSeen(Tail(vals)), LAMBDA v : v # Head(vals))

\* Mode with the values of the highest count in the order they first appear
ModeUnsorted(vals) ==
    SelectSeq(FirstSeen(vals), LAMBDA v : \A w \in Values(vals) : Count(vals, v) >= Count(vals, w))

\* Series.mode(): the values of the highest count, in ascending order
Mode(vals) ==
    SortAscending({v \in Values(vals) : \A w \in Values(vals) : Count(vals, v) >= Count(vals, w)})

-----------------------------------------------------------------------------
(* Widgets of the sidebar *)

\* Slider with the two ends free to cross
SliderUnordered(lo, hi) == (lo..hi) \X (lo..hi)

\* st.sidebar.slider with a pair as value: a range inside [min_value, max_value]
Slider(lo, hi) == {p \in (lo..hi) \X (lo..hi) : p[1] <= p[2]}

\* st.sidebar.multiselect: any selection of the options
Multiselect(options) == SUBSET options

\* the selections a multiselect over a column can give; [] when it is absent
Selections(d, cols, col) ==
    IF col \in cols THEN Multiselect(Unique(d, col)) ELSE {{}}

-----------------------------------------------------------------------------
(* The filter *)

\* RangeFilter with the upper bound left out of the range
RangeFilterExclusive(view, col, lo, hi) ==
    SelectSeq(view, LAMBDA r : Val(r, col) >= lo /\ Val(r, col) < hi)

RangeFilter(view, col, lo, hi) ==
    SelectSeq(view, LAMBDA r : Val(r, col) >= lo /\ Val(r, col) <= hi)

\* IsinFilter with the kept rows in reverse order
IsinFilterReversed(view, col, selected) ==
    LET kept == SelectSeq(view, LAMBDA r : Val(r, col) \in selected)
    IN  [i \in 1..Len(kept) |-> kept[Len(kept) + 1 - i]]

IsinFilter(view, col, selected) ==
    SelectSeq(view, LAMBDA r : Val(r, col) \in selected)

\* ApplyFilters with each membership filter taken from the whole frame
ApplyFiltersFromFrame(d, c) ==
    LET f1 == RangeFilter(d, "Price_in_Lakhs", c.min_price, c.max_price)
        f2 == RangeFilter(f1, "Size_in_SqFt", c.min_size, c.max_size)
        f3 == IF c.cities # {} THEN IsinFilter(d, "City", c.cities) ELSE f2
        f4 == IF c.types # {} THEN IsinFilter(d, "Property_Type", c.types) ELSE f3
        f5 == IF c.bhk # {} THEN IsinFilter(d, "BHK", c.bhk) ELSE f4
    IN  f5

\* the predicates of lines 145-167, one after another on the shrinking view
ApplyFilters(d, c) ==
    LET f1 == RangeFilter(d, "Price_in_Lakhs", c.min_price, c.max_price)
        f2 == RangeFilter(f1, "Size_in_SqFt", c.min_size, c.max_size)
        f3 == IF c.cities # {} THEN IsinFilter(f2, "City", c.cities) ELSE f2
        f4 == IF c.types # {} THEN IsinFilter(f3, "Property_Type", c.types) ELSE f3
        f5 == IF c.bhk # {} THEN IsinFilter(f4, "BHK", c.bhk) ELSE f4
    IN  f5

-----------------------------------------------------------------------------
(* Steps of the script *)

\* the columns of cols_needed that the frame lacks, in the order they are read
Missing(cols_needed, cols) ==
    SelectSeq(cols_needed, LAMBDA c : c \notin cols)

Section(name, shown) == [name |-> name, shown |-> shown]

Init ==
    /\ csv \in DataFiles
    /\ pc = "init"
    /\ df = <<>>
    /\ columns = {}
    /\ criteria = NoCriteria
    /\ filtered_df = <<>>
    /\ steps = <<>>
    /\ metrics = <<>>
    /\ sections = <<>>
    /\ insights = <<>>
    /\ error = NoError
    /\ header = <<>>
    /\ city_avg_price = <<>>
    /\ city_counts = <<>>
    /\ city_stats = <<>>
    /\ amenity_analysis = <<>>
    /\ corr_matrix = NoMatrix
    /\ top_pos = <<>>
    /\ top_neg = <<>>
    /\ corr_metrics = <<>>

\* RealEstateDashboard(): __init__ calls load_data
load_data ==
    /\ pc = "init"
    /\ IF csv.exists
         THEN df' = csv.rows /\ columns' = csv.cols /\ header' = csv.header
         ELSE df' = <<>> /\ columns' = {} /\ header' = <<>>
    /\ pc' = "run"
    /\ UNCHANGED <<csv, criteria, filtered_df, steps, metrics, sections, insights, error,
                   city_avg_price, location_tables, amenity_analysis, correlations>>

\* DataFrame.empty: no rows or no columns
Empty(d, cols) == Len(d) = 0 \/ cols = {}

\* run(), up to the call of display_sidebar_filters
run ==
    /\ pc = "run"
    /\ pc' = IF Empty(df, columns) THEN "failed" ELSE "widgets"
    /\ UNCHANGED <<csv, df, columns, criteria, filtered_df, steps, metrics, sections, insights, error,
                   header, city_avg_price, location_tables, amenity_analysis, correlations>>

\* the slider bounds read the price column, then the size column
WidgetsError(cols) ==
    LET miss == Missing(<<"Price_in_Lakhs", "Size_in_SqFt">>, cols)
    IN  IF miss = <<>> THEN NoError ELSE Raised("KeyError", miss[1], "filter")

\* the values the five widgets can hold over the frame d
WidgetValues(d, cols) ==
    {[live |-> TRUE,
      min_price |-> p[1], max_price |-> p[2], min_size |-> s[1], max_size |-> s[2],
      cities |-> selected_cities, types |-> selected_types, bhk |-> selected_bhk] :
        p \in Slider(ColMin(d, "Price_in_Lakhs"), ColMax(d, "Price_in_Lakhs")),
        s \in Slider(ColMin(d, "Size_in_SqFt"), ColMax(d, "Size_in_SqFt")),
        selected_cities \in Selections(d, cols, "City"),
        selected_types \in Selections(d, cols, "Property_Type"),
        selected_bhk \in Selections(d, cols, "BHK")}

\* display_sidebar_filters, lines 78-140: the widgets are read
display_sidebar_filters_widgets ==
    /\ pc = "widgets"
    /\ steps' = Append(steps, "filter")
    /\ error' = WidgetsError(columns)
    /\ IF error' = NoError
         THEN /\ criteria' \in WidgetValues(df, columns)
              /\ pc' = "apply"
         ELSE /\ UNCHANGED criteria
              /\ pc' = "raised"
    /\ UNCHANGED <<csv, df, columns, filtered_df, metrics, sections, insights,
                   header, city_avg_price, location_tables, amenity_analysis, correlations>>

\* the filters applied to self.df itself
display_sidebar_filters_apply_in_place ==
    /\ pc = "apply"
    /\ filtered_df' = ApplyFilters(df, criteria)
    /\ df' = filtered_df'
    /\ criteria' = NoCriteria
    /\ pc' = "key_metrics"
    /\ UNCHANGED <<csv, columns, steps, metrics, sections, insights, error,
                   header, city_avg_price, location_tables, amenity_analysis, correlations>>

\* display_sidebar_filters, lines 142-178: the filters are applied to a copy
display_sidebar_filters_apply ==
    /\ pc = "apply"
    /\ filtered_df' = ApplyFilters(df, criteria)
    /\ criteria' = NoCriteria
    /\ pc' = "key_metrics"
    /\ UNCHANGED <<csv, df, columns, steps, metrics, sections, insights, error,
                   header, city_avg_price, location_tables, amenity_analysis, correlations>>

-----------------------------------------------------------------------------
(* display_key_metrics *)

MeanColumns == <<"Price_in_Lakhs", "Size_in_SqFt", "Price_per_SqFt">>

MeanLabels == <<"Avg Price", "Avg Size", "Avg Price/Sq Ft">>

Metric(label, value, delta) == [label |-> label, value |-> value, delta |-> delta]

\* col1: the record count and its delta
TotalMetric(view, base) ==
    Metric("Total Properties", FmtInt(Len(view), FALSE),
           IF Len(view) # Len(base) THEN FmtInt(Len(view) - Len(base), TRUE) ELSE EmptyText)

\* MeanMetric with the delta left out when the two means are equal
MeanMetricIfMeansDiffer(view, base, k) ==
    LET avg == Mean(Column(view, MeanColumns[k]))
    IN  {Metric(MeanLabels[k], Fmt0(avg, FALSE), delta) :
            delta \in IF avg # Mean(Column(base, MeanColumns[k]))
                        THEN FmtDelta(avg, Mean(Column(base, MeanColumns[k])))
                        ELSE {EmptyText}}

\* col2..col4: the st.metric calls a mean column can give
MeanMetric(view, base, k) ==
    LET avg == Mean(Column(view, MeanColumns[k]))
    IN  {Metric(MeanLabels[k], Fmt0(avg, FALSE), delta) :
            delta \in IF Len(view) # Len(base)
                        THEN FmtDelta(avg, Mean(Column(base, MeanColumns[k])))
                        ELSE {EmptyText}}

\* mode()[0] if not mode().empty else "N/A"
CommonBhk(view) ==
    LET mode == Mode(Column(view, "BHK"))
    IN  IF mode # <<>> THEN FmtInt(mode[1], FALSE) ELSE NotAvailable

\* col5
BhkMetric(view, cols) ==
    IF "BHK" \in cols THEN <<Metric("Most Common BHK", CommonBhk(view), EmptyText)>> ELSE <<>>

\* the means shown before a column is found missing (all three when none is)
MeansShown(cols) ==
    LET miss == {k \in 1..3 : MeanColumns[k] \notin cols}
    IN  IF miss = {} THEN 3 ELSE (CHOOSE k \in miss : \A j \in miss : k <= j) - 1

KeyMetricsError(cols) ==
    LET miss == Missing(MeanColumns, cols)
    IN  IF miss = <<>> THEN NoError ELSE Raised("KeyError", miss[1], "key_metrics")

display_key_metrics ==
    /\ pc = "key_metrics"
    /\ steps' = Append(steps, "key_metrics")
    /\ error' = KeyMetricsError(columns)
    /\ \E means \in [1..MeansShown(columns) -> UNION {MeanMetric(filtered_df, df, k) : k \in 1..3}] :
          /\ \A k \in 1..MeansShown(columns) : means[k] \in MeanMetric(filtered_df, df, k)
          /\ metrics' = <<TotalMetric(filtered_df, df)>> \o means \o
                        (IF error' = NoError THEN BhkMetric(filtered_df, columns) ELSE <<>>)
    /\ pc' = IF error' = NoError THEN "price" ELSE "raised"
    /\ UNCHANGED <<csv, df, columns, criteria, filtered_df, sections, insights,
                   header, city_avg_price, location_tables, amenity_analysis, correlations>>

-----------------------------------------------------------------------------
(* Tables by city *)

\* the keys of groupby(key), in sorted order
GroupKeys(view, key) ==
    LET keys == FirstSeen(Column(view, key))
    IN  Reorder(keys, Descending([i \in 1..Len(keys) |-> Int2F(-LexRank(keys[i]))]))

\* the rows of one group
Group(view, key, k) == SelectSeq(view, LAMBDA r : Val(r, key) = k)

\* sort_values(ascending=False) of a series or, by one column, of a table:
\* the greatest value first, equal ones in the order they had
SortDescending(s) == Reorder(s, Descending([i \in 1..Len(s) |-> s[i].value]))

\* groupby('City')['Price_in_Lakhs'].mean().sort_values(ascending=False).head(10)
CityAvgPrice(view) ==
    LET keys == GroupKeys(view, "City")
    IN  HeadN(SortDescending(
                [k \in 1..Len(keys) |->
                    [label |-> keys[k],
                     value |-> Mean(Column(Group(view, "City", keys[k]), "Price_in_Lakhs"))]]),
              10)

\* value_counts().head(15): the cities by count, those of equal count in the
\* order they first appear in the view
CityCounts(view) ==
    LET keys == FirstSeen(Column(view, "City"))
    IN  HeadN(SortDescending(
                [k \in 1..Len(keys) |->
                    [label |-> keys[k],
                     value |-> Int2F(Count(Column(view, "City"), keys[k]))]]),
              15)

\* the city statistics: the aggregates to two decimals, by Avg Price, ten rows
CityStats(view) ==
    LET keys == GroupKeys(view, "City")
        G(k) == Group(view, "City", keys[k])
    IN  HeadN(SortDescending(
                [k \in 1..Len(keys) |->
                    [label    |-> keys[k],
                     value    |-> Round2(Mean(Column(G(k), "Price_in_Lakhs"))),
                     median   |-> Round2(Median(Column(G(k), "Price_in_Lakhs"))),
                     count    |-> Len(G(k)),
                     avg_size |-> Round2(Mean(Column(G(k), "Size_in_SqFt"))),
                     avg_pps  |-> Round2(Mean(Column(G(k), "Price_per_SqFt")))]]),
              10)

-----------------------------------------------------------------------------
(* display_price_analysis *)

\* px.scatter refuses a hover_data column the frame lacks; hover_data is given
\* only when the frame has a City column
HoverColumns(cols) ==
    IF "City" \in cols THEN <<"City", "Property_Type", "BHK">> ELSE <<>>

PriceAnalysisError(cols) ==
    LET miss == Missing(<<"Price_in_Lakhs", "Price_per_SqFt", "Size_in_SqFt">>, cols)
        hover == Missing(HoverColumns(cols), cols)
    IN  IF miss # <<>> THEN Raised("KeyError", miss[1], "price")
        ELSE IF hover # <<>> THEN Raised("ValueError", hover[1], "price")
        ELSE NoError

display_price_analysis ==
    /\ pc = "price"
    /\ steps' = Append(steps, "price")
    /\ error' = PriceAnalysisError(columns)
    /\ IF error' = NoError
         THEN /\ sections' = sections \o
                    << Section("Price by BHK", "BHK" \in columns),
                       Section("Price by City", "City" \in columns),
                       Section("Price by Type", "Property_Type" \in columns) >>
              /\ city_avg_price' =
                    IF "City" \in columns THEN CityAvgPrice(filtered_df) ELSE <<>>
              /\ pc' = "location"
         ELSE /\ UNCHANGED <<sections, city_avg_price>>
              /\ pc' = "raised"
    /\ UNCHANGED <<csv, df, columns, criteria, filtered_df, metrics, insights,
                   header, location_tables, amenity_analysis, correlations>>

-----------------------------------------------------------------------------
(* display_location_analysis *)

\* the city comparison aggregates BHK once a city is selected
LocationError(cols, selected_cities) ==
    LET miss == Missing(<<"Price_in_Lakhs", "Size_in_SqFt", "Price_per_SqFt">>, cols)
    IN  IF "City" \notin cols THEN NoError
        ELSE IF miss # <<>> THEN Raised("KeyError", miss[1], "location")
        ELSE IF selected_cities # {} /\ "BHK" \notin cols
               THEN Raised("KeyError", "BHK", "location")
        ELSE NoError

display_location_analysis ==
    /\ pc = "location"
    /\ steps' = Append(steps, "location")
    /\ IF "City" \notin columns
         THEN /\ sections' = Append(sections, Section("Location", FALSE))
              /\ error' = NoError
              /\ pc' = "features"
              /\ UNCHANGED location_tables
         ELSE \E selected_cities \in Multiselect(Unique(filtered_df, "City")) :
                /\ error' = LocationError(columns, selected_cities)
                /\ city_counts' = CityCounts(filtered_df)
                /\ city_stats' =
                      IF Missing(<<"Price_in_Lakhs", "Size_in_SqFt", "Price_per_SqFt">>, columns) = <<>>
                        THEN CityStats(filtered_df) ELSE <<>>
                /\ IF error' = NoError
                     THEN /\ sections' = sections \o
                                << Section("Location", TRUE),
                                   Section("Hierarchy",
                                           {"State", "City", "Locality"} \subseteq columns) >>
                          /\ pc' = "features"
                     ELSE /\ UNCHANGED sections
                          /\ pc' = "raised"
    /\ UNCHANGED <<csv, df, columns, criteria, filtered_df, metrics, insights,
                   header, city_avg_price, amenity_analysis, correlations>>

-----------------------------------------------------------------------------
(* display_property_features_analysis *)

\* the keywords of common_amenities, a character at a time
common_amenities ==
    << <<"G", "y", "m">>,
       <<"P", "o", "o", "l">>,
       <<"C", "l", "u", "b", "h", "o", "u", "s", "e">>,
       <<"G", "a", "r", "d", "e", "n">>,
       <<"P", "a", "r", "k">>,
       <<"S", "e", "c", "u", "r", "i", "t", "y">>,
       <<"L", "i", "f", "t">>,
       <<"P", "o", "w", "e", "r", " ", "B", "a", "c", "k", "u", "p">> >>

\* case folding of the letters the keywords have in upper case
Lower(ch) ==
    CASE ch = "G" -> "g" [] ch = "P" -> "p" [] ch = "C" -> "c"
      [] ch = "S" -> "s" [] ch = "L" -> "l" [] ch = "B" -> "b"
      [] OTHER -> ch

\* str.contains(amenity, case=False, na=False) on one cell
Contains(cell, amenity) ==
    /\ ~cell.na
    /\ \E i \in 0..(Len(cell.text) - Len(amenity)) :
          \A j \in 1..Len(amenity) : Lower(cell.text[i + j]) = Lower(amenity[j])

\* filtered_df[has_amenity] and filtered_df[~has_amenity]
WithAmenity(view, amenity) == SelectSeq(view, LAMBDA r : Contains(r.amenities, amenity))

WithoutAmenity(view, amenity) == SelectSeq(view, LAMBDA r : ~Contains(r.amenities, amenity))

\* Premium without the fallback: the quotient as it comes
PremiumNoFallback(avg_price_with, avg_price_without) ==
    IF FLess(Int2F(0), avg_price_without)
      THEN FScale(FSub(FDiv(avg_price_with, avg_price_without), Int2F(1)), 100)
      ELSE NaN

\* ((with / without) - 1) * 100 if without > 0 else 0
Premium(avg_price_with, avg_price_without) ==
    IF FLess(Int2F(0), avg_price_without)
      THEN FScale(FSub(FDiv(avg_price_with, avg_price_without), Int2F(1)), 100)
      ELSE Int2F(0)

\* the dict appended for one keyword
AmenityRow(view, amenity) ==
    LET with           == WithAmenity(view, amenity)
        avg_price_with == Mean(Column(with, "Price_per_SqFt"))
        avg_price_without == Mean(Column(WithoutAmenity(view, amenity), "Price_per_SqFt"))
    IN  [Amenity    |-> amenity,
         Count      |-> Len(with),
         Percentage |-> IF Len(view) = 0 THEN NaN ELSE Frac(Len(with) * 100, Len(view)),
         With       |-> avg_price_with,
         Without    |-> avg_price_without,
         Premium    |-> Premium(avg_price_with, avg_price_without)]

\* the loop without its has_amenity.any() test: a row for every keyword
AmenityAnalysisEveryKeyword(view) ==
    [k \in 1..Len(common_amenities) |-> AmenityRow(view, common_amenities[k])]

\* the loop over common_amenities: a row for each keyword some record has
AmenityAnalysis(view) ==
    SelectSeq([k \in 1..Len(common_amenities) |-> AmenityRow(view, common_amenities[k])],
              LAMBDA row : row.Count > 0)

\* the .str accessor of line 589 is there for a column of text only: read_csv
\* gives a column whose every cell is empty the float type, and the accessor
\* raises AttributeError on it; a frame of no rows keeps the object type
FeaturesError(cols, frame) ==
    IF /\ "Amenities" \in cols
       /\ frame # <<>>
       /\ \A i \in 1..Len(frame) : frame[i].amenities.na
      THEN Raised("AttributeError", "", "features")
      ELSE NoError

\* the three tabs before the amenities tab
FeatureTabs(cols) ==
    << Section("BHK Analysis", "BHK" \in cols),
       Section("Furnishing", "Furnished_Status" \in cols),
       Section("Parking", "Parking_Space" \in cols) >>

\* the amenities tab without its column check
display_property_features_analysis_unguarded ==
    /\ pc = "features"
    /\ steps' = Append(steps, "features")
    /\ IF "Amenities" \in columns
         THEN /\ error' = FeaturesError(columns, df)
              /\ IF error' = NoError
                   THEN /\ sections' = sections \o FeatureTabs(columns)
                                         \o <<Section("Amenities", TRUE)>>
                        /\ amenity_analysis' = AmenityAnalysis(filtered_df)
                        /\ pc' = "correlation"
                   ELSE /\ sections' = sections \o FeatureTabs(columns)
                        /\ UNCHANGED amenity_analysis
                        /\ pc' = "raised"
         ELSE /\ sections' = sections \o FeatureTabs(columns)
              /\ UNCHANGED amenity_analysis
              /\ error' = Raised("KeyError", "Amenities", "features")
              /\ pc' = "raised"
    /\ UNCHANGED <<csv, df, columns, criteria, filtered_df, metrics, insights,
                   header, city_avg_price, location_tables, correlations>>

display_property_features_analysis ==
    /\ pc = "features"
    /\ steps' = Append(steps, "features")
    /\ error' = FeaturesError(columns, df)
    /\ IF error' = NoError
         THEN /\ sections' = sections \o FeatureTabs(columns)
                               \o <<Section("Amenities", "Amenities" \in columns)>>
              /\ amenity_analysis' =
                    IF "Amenities" \in columns THEN AmenityAnalysis(filtered_df) ELSE <<>>
              /\ pc' = "correlation"
         ELSE /\ sections' = sections \o FeatureTabs(columns)
              /\ UNCHANGED amenity_analysis
              /\ pc' = "raised"
    /\ UNCHANGED <<csv, df, columns, criteria, filtered_df, metrics, insights,
                   header, city_avg_price, location_tables, correlations>>

-----------------------------------------------------------------------------
(* display_correlation_analysis *)

\* the columns select_dtypes(include=[np.number]) can keep
NumericColumns ==
    {"Price_in_Lakhs", "Size_in_SqFt", "Price_per_SqFt", "BHK", "Parking_Space"}

\* numerical_cols: the numeric columns of the frame, from left to right
NumericalCols(h) == SelectSeq(h, LAMBDA c : c \in NumericColumns)

\* a correlation coefficient r: NaN, or its sign and r * r = n / d in lowest
\* terms
NaNCoef == [nan |-> TRUE, sgn |-> 0, n |-> 0, d |-> 1]

One == [nan |-> FALSE, sgn |-> 1, n |-> 1, d |-> 1]

\* Pearson's r of two columns: NaN when one of them does not vary (so over
\* fewer than two rows)
Coef(xs, ys) ==
    LET dx  == Deviations(xs)
        dy  == Deviations(ys)
        sxy == Dot(dx, dy)
        sxx == Dot(dx, dx)
        syy == Dot(dy, dy)
        g   == GCD(sxy * sxy, sxx * syy)
    IN  IF sxx = 0 \/ syy = 0 THEN NaNCoef
        ELSE [nan |-> FALSE,
              sgn |-> IF sxy > 0 THEN 1 ELSE IF sxy < 0 THEN -1 ELSE 0,
              n   |-> (sxy * sxy) \div g,
              d   |-> (sxx * syy) \div g]

\* a number that grows with r: r * r with the sign of r
CoefKey(c) == [nan |-> c.nan, n |-> c.sgn * c.n, d |-> c.d]

\* a < b on coefficients; False when either is NaN
CoefLess(a, b) == ~a.nan /\ ~b.nan /\ a.sgn * a.n * b.d < b.sgn * b.n * a.d

\* abs(c) > p / q
AbsAbove(c, p, q) == ~c.nan /\ c.n * q * q > p * p * c.d

\* DataFrame.corr(): the coefficient of every pair of columns, a column with
\* itself included
CorrMatrix(view, cols) ==
    [cols |-> cols,
     at   |-> [i \in 1..Len(cols) |-> [j \in 1..Len(cols) |->
                  Coef(Column(view, cols[i]), Column(view, cols[j]))]]]

\* unstack(): the entries column by column, each under (column, row)
Unstack(m) ==
    LET n == Len(m.cols)
    IN  [k \in 1..(n * n) |->
            [var1 |-> m.cols[((k - 1) \div n) + 1],
             var2 |-> m.cols[((k - 1) % n) + 1],
             corr |-> m.at[((k - 1) % n) + 1][((k - 1) \div n) + 1]]]

\* sort_values(ascending=False): the greatest coefficient first, equal ones in
\* the order they had, NaN last
SortValues(s) == Reorder(s, Descending([i \in 1..Len(s) |-> CoefKey(s[i].corr)]))

\* corr_pairs[corr_pairs < 1].head(5)
TopPos(corr_pairs) ==
    HeadN(SelectSeq(corr_pairs, LAMBDA e : CoefLess(e.corr, One)), 5)

\* corr_pairs.tail(5)
TopNeg(corr_pairs) == TailN(corr_pairs, 5)

\* corr_matrix['Price_in_Lakhs'].sort_values(ascending=False)
PriceCorrelations(m) ==
    LET p == CHOOSE j \in 1..Len(m.cols) : m.cols[j] = "Price_in_Lakhs"
    IN  SortValues([i \in 1..Len(m.cols) |->
                       [var1 |-> "Price_in_Lakhs", var2 |-> m.cols[i], corr |-> m.at[i][p]]])

\* CorrLabel with the two tests taken the other way round
CorrLabelModerateFirst(size_corr) ==
    IF AbsAbove(size_corr, 3, 10) THEN "Moderate"
    ELSE IF AbsAbove(size_corr, 7, 10) THEN "Strong"
    ELSE "Weak"

\* "Strong" if abs(size_corr) > 0.7 else "Moderate" if abs(size_corr) > 0.3
\* else "Weak"
CorrLabel(size_corr) ==
    IF AbsAbove(size_corr, 7, 10) THEN "Strong"
    ELSE IF AbsAbove(size_corr, 3, 10) THEN "Moderate"
    ELSE "Weak"

\* col1: the second entry of the sorted column
StrongestPositive(price_correlations) ==
    [label |-> "Strongest Positive",
     value |-> price_correlations[2].var2, delta |-> price_correlations[2].corr]

\* col2: the last entry of the sorted column
StrongestNegative(price_correlations) ==
    [label |-> "Strongest Negative",
     value |-> price_correlations[Len(price_correlations)].var2,
     delta |-> price_correlations[Len(price_correlations)].corr]

\* col3: the size-price coefficient and its label
SizePriceMetric(view) ==
    LET size_corr == Coef(Column(view, "Size_in_SqFt"), Column(view, "Price_in_Lakhs"))
    IN  [label |-> "Size-Price Correlation", value |-> size_corr, delta |-> CorrLabel(size_corr)]

\* the three metrics of Price Correlation Insights
PriceCorrelationMetrics(m, view) ==
    IF "Price_in_Lakhs" \in {m.cols[j] : j \in 1..Len(m.cols)}
      THEN LET price_correlations == PriceCorrelations(m)
           IN  << StrongestPositive(price_correlations),
                  StrongestNegative(price_correlations),
                  SizePriceMetric(view) >>
      ELSE <<>>

display_correlation_analysis ==
    /\ pc = "correlation"
    /\ steps' = Append(steps, "correlation")
    /\ sections' = sections \o
          IF Cardinality(columns \cap NumericColumns) < 2
            THEN << Section("Correlation", FALSE) >>
            ELSE << Section("Correlation", TRUE),
                    Section("Price Correlation", "Price_in_Lakhs" \in columns) >>
    /\ IF Len(NumericalCols(header)) < 2
         THEN UNCHANGED correlations
         ELSE \E m \in {CorrMatrix(filtered_df, NumericalCols(header))} :
              \E corr_pairs \in {SortValues(Unstack(m))} :
                /\ corr_matrix' = m
                /\ top_pos' = TopPos(corr_pairs)
                /\ top_neg' = TopNeg(corr_pairs)
                /\ corr_metrics' = PriceCorrelationMetrics(m, filtered_df)
    /\ pc' = "explorer"
    /\ UNCHANGED <<csv, df, columns, criteria, filtered_df, metrics, insights, error,
                   header, city_avg_price, location_tables, amenity_analysis>>

-----------------------------------------------------------------------------
(* display_data_explorer: the preview, the summary and the default chart *)

\* the explorer working on the whole frame instead of the view
display_data_explorer_refiltered ==
    /\ pc = "explorer"
    /\ steps' = Append(steps, "explorer")
    /\ filtered_df' = df
    /\ pc' = "insights"
    /\ UNCHANGED <<csv, df, columns, criteria, metrics, sections, insights, error,
                   header, city_avg_price, location_tables, amenity_analysis, correlations>>

display_data_explorer ==
    /\ pc = "explorer"
    /\ steps' = Append(steps, "explorer")
    /\ pc' = "insights"
    /\ UNCHANGED <<csv, df, columns, criteria, filtered_df, metrics, sections, insights, error,
                   header, city_avg_price, location_tables, amenity_analysis, correlations>>

-----------------------------------------------------------------------------
(* display_insights_summary *)

\* Series.skew() against the threshold 1: NaN under three rows, 0 when the
\* values do not vary, else n*sqrt(n-1)/(n-2) * m3 / m2^1.5, compared squared
PriceSkew(vals) ==
    LET n  == Len(vals)
        d  == Deviations(vals)
        m2 == Dot(d, d)
        m3 == SumSeq(Cube(d))
    IN  IF n < 3 THEN "nan"
        ELSE IF m2 = 0 THEN "within"
        ELSE IF n * n * (n - 1) * m3 * m3 > (n - 2) * (n - 2) * m2 * m2 * m2
               THEN (IF m3 > 0 THEN "right" ELSE "left")
        ELSE "within"

\* SizePriceCorr with 0.5 itself counted as above 0.5
SizePriceCorrFromHalf(xs, ys) ==
    LET dx  == Deviations(xs)
        dy  == Deviations(ys)
        sxy == Dot(dx, dy)
        sxx == Dot(dx, dx)
        syy == Dot(dy, dy)
    IN  IF sxx = 0 \/ syy = 0 THEN "nan"
        ELSE IF sxy > 0 /\ 4 * sxy * sxy >= sxx * syy THEN "above 0.5"
        ELSE IF sxy < 0 THEN "negative"
        ELSE "between"

\* Series.corr() against the thresholds 0.5 and 0: NaN when a column does not
\* vary, else cov / sqrt(var * var), compared squared
SizePriceCorr(xs, ys) ==
    LET dx  == Deviations(xs)
        dy  == Deviations(ys)
        sxy == Dot(dx, dy)
        sxx == Dot(dx, dx)
        syy == Dot(dy, dy)
    IN  IF sxx = 0 \/ syy = 0 THEN "nan"
        ELSE IF sxy > 0 /\ 4 * sxy * sxy > sxx * syy THEN "above 0.5"
        ELSE IF sxy < 0 THEN "negative"
        ELSE "between"

Insight(rule, wording, values) == [rule |-> rule, wording |-> wording, values |-> values]

\* groupby(key)[col].mean(): a group per key value met in the view
GroupMean(view, key, col, k) ==
    Mean(Column(SelectSeq(view, LAMBDA r : Val(r, key) = k), col))

\* idxmax(): the first group, in key order, whose mean no group exceeds
IdxMax(view, key, col) ==
    LET groups == Unique(view, key)
        tops   == {g \in groups : \A h \in groups :
                      ~FLess(GroupMean(view, key, col, g), GroupMean(view, key, col, h))}
    IN  CHOOSE g \in tops : \A h \in tops : LexRank(g) <= LexRank(h)

InsightsError(cols, view) ==
    LET miss == Missing(<<"Price_in_Lakhs", "Size_in_SqFt">>, cols)
    IN  IF miss # <<>> THEN Raised("KeyError", miss[1], "insights")
        ELSE IF "City" \in cols /\ Unique(view, "City") = {}
               THEN Raised("ValueError", "", "insights")
        ELSE IF "Price_per_SqFt" \notin cols
               THEN Raised("KeyError", "Price_per_SqFt", "insights")
        ELSE NoError

SkewInsight(view) ==
    LET price_skew == PriceSkew(Column(view, "Price_in_Lakhs"))
    IN  IF price_skew \in {"right", "left"}
          THEN <<Insight("Price Distribution", price_skew, <<>>)>> ELSE <<>>

CorrInsight(view) ==
    LET size_price_corr ==
            SizePriceCorr(Column(view, "Size_in_SqFt"), Column(view, "Price_in_Lakhs"))
    IN  IF size_price_corr = "above 0.5"
          THEN <<Insight("Size-Price Relationship", "strong positive", <<>>)>>
        ELSE IF size_price_corr = "negative"
          THEN <<Insight("Size-Price Relationship", "negative", <<>>)>>
        ELSE <<>>

CityInsight(view, cols) ==
    IF "City" \in cols
      THEN LET top_city == IdxMax(view, "City", "Price_in_Lakhs")
           IN  <<Insight("Most Expensive City", top_city,
                         <<Fmt0(GroupMean(view, "City", "Price_in_Lakhs", top_city), FALSE)>>)>>
      ELSE <<>>

BhkInsight(view, cols) ==
    IF "BHK" \in cols
      THEN <<Insight("Popular Configuration", "", <<CommonBhk(view)>>)>>
      ELSE <<>>

\* Series.min() and Series.max(): NaN over no rows
MinF(vals) == IF Len(vals) = 0 THEN NaN
              ELSE Int2F(CHOOSE v \in Values(vals) : \A w \in Values(vals) : v <= w)

MaxF(vals) == IF Len(vals) = 0 THEN NaN
              ELSE Int2F(CHOOSE v \in Values(vals) : \A w \in Values(vals) : v >= w)

RangeInsight(view) ==
    LET pps == Column(view, "Price_per_SqFt")
    IN  <<Insight("Price Range", "",
                  <<Fmt0(MinF(pps), FALSE), Fmt0(MaxF(pps), FALSE), Fmt0(Mean(pps), FALSE)>>)>>

\* the insights with the price-per-area range appended first
display_insights_summary_range_first ==
    /\ pc = "insights"
    /\ steps' = Append(steps, "insights")
    /\ error' = InsightsError(columns, filtered_df)
    /\ IF error' = NoError
         THEN /\ insights' = RangeInsight(filtered_df) \o SkewInsight(filtered_df)
                             \o CorrInsight(filtered_df)
                             \o CityInsight(filtered_df, columns)
                             \o BhkInsight(filtered_df, columns)
              /\ pc' = "done"
         ELSE /\ UNCHANGED insights
              /\ pc' = "raised"
    /\ UNCHANGED <<csv, df, columns, criteria, filtered_df, metrics, sections,
                   header, city_avg_price, location_tables, amenity_analysis, correlations>>

display_insights_summary ==
    /\ pc = "insights"
    /\ steps' = Append(steps, "insights")
    /\ error' = InsightsError(columns, filtered_df)
    /\ IF error' = NoError
         THEN /\ insights' = SkewInsight(filtered_df) \o CorrInsight(filtered_df)
                             \o CityInsight(filtered_df, columns)
                             \o BhkInsight(filtered_df, columns)
                             \o RangeInsight(filtered_df)
              /\ pc' = "done"
         ELSE /\ UNCHANGED insights
              /\ pc' = "raised"
    /\ UNCHANGED <<csv, df, columns, criteria, filtered_df, metrics, sections,
                   header, city_avg_price, location_tables, amenity_analysis, correlations>>

-----------------------------------------------------------------------------
(* The filter: what a record must satisfy to be kept *)

InRange(v, lo, hi) == lo <= v /\ v <= hi

Allowed(v, selected) == selected = {} \/ v \in selected

Satisfies(r, c) ==
    /\ InRange(r.price, c.min_price, c.max_price)
    /\ InRange(r.size, c.min_size, c.max_size)
    /\ Allowed(r.city, c.cities)
    /\ Allowed(r.ptype, c.types)
    /\ Allowed(r.bhk, c.bhk)

Rows(view) == {view[i] : i \in 1..Len(view)}

\* C1: the view the filter step returns holds exactly the records of the
\* dataset that lie in both inclusive ranges and, for cities, property types
\* and BHK values, in the selected set when that set is not empty.
C1_FilterSoundAndComplete ==
    [][pc = "apply" =>
          /\ \A r \in Rows(filtered_df') : r \in Rows(df) /\ Satisfies(r, criteria)
          /\ \A r \in Rows(df) : Satisfies(r, criteria) => r \in Rows(filtered_df')]_vars

\* C1 witness: the filter has returned a view that keeps some records of the
\* dataset and drops others.
C1_Witness ==
    /\ pc = "key_metrics"
    /\ Rows(filtered_df) # {}
    /\ Rows(df) \ Rows(filtered_df) # {}

\* C2: the view is a subsequence of the dataset: its records are records of
\* the dataset, each at most once, in the dataset's order.
C2_ViewIsSubsequence ==
    /\ \A j \in 1..Len(filtered_df) :
          /\ filtered_df[j].idx + 1 \in 1..Len(df)
          /\ filtered_df[j] = df[filtered_df[j].idx + 1]
    /\ \A j, k \in 1..Len(filtered_df) : j < k => filtered_df[j].idx < filtered_df[k].idx

\* C2 witness: a view of two records that were not neighbours in the dataset.
C2_Witness ==
    /\ pc = "key_metrics"
    /\ Len(filtered_df) = 2
    /\ filtered_df[2].idx > filtered_df[1].idx + 1

\* C3: filtering the view again with any second criteria gives the records
\* of the dataset that satisfy the constraints of both criteria, in order; and
\* filtering the view again by its own criteria gives the view back.
C3_FilteringComposes ==
    [][pc = "apply" =>
          /\ \A c2 \in WidgetValues(df, columns) :
                ApplyFilters(filtered_df', c2)
                  = SelectSeq(df, LAMBDA r : Satisfies(r, criteria) /\ Satisfies(r, c2))
          /\ ApplyFilters(filtered_df', criteria) = filtered_df']_vars

\* C3 witness: the filter has dropped a record of the dataset, and a second
\* criteria over the dataset drops the record the view kept.
C3_Witness ==
    /\ pc = "key_metrics"
    /\ Len(filtered_df) = 1
    /\ Len(df) = 2
    /\ \E c2 \in WidgetValues(df, columns) : ApplyFilters(filtered_df, c2) = <<>>

\* C4: from load_data on, self.df holds the rows read from the file, in order.
C4_DatasetUnchanged ==
    pc # "init" =>
        /\ df = (IF csv.exists THEN csv.rows ELSE <<>>)
        /\ columns = (IF csv.exists THEN csv.cols ELSE {})

\* C4 witness: the run has ended after a filter that dropped records.
C4_Witness ==
    /\ pc = "done"
    /\ Len(filtered_df) < Len(df)

-----------------------------------------------------------------------------
(* The key metrics *)

MetricsOf(labels) == {metrics[i] : i \in {j \in 1..Len(metrics) : metrics[j].label \in labels}}

MeanLabelSet == {MeanLabels[k] : k \in 1..3}

\* C5 (as claimed): over a view of no records every metric of the key-metrics
\* step shows the undefined marker and an empty delta, and the step does not
\* raise.
C5_EmptyViewShowsMarkers ==
    (RequiredColumns \subseteq columns /\ Len(filtered_df) = 0 /\ metrics # <<>>) =>
        /\ error = NoError \/ error.at # "key_metrics"
        /\ \A m \in MetricsOf(MeanLabelSet \cup {"Most Common BHK"}) :
              m.value = NotAvailable /\ m.delta = EmptyText

\* C6 (as claimed): over a view of no records, with every required column
\* present, no section of the run raises.
C6_EmptyViewNeverRaises ==
    (RequiredColumns \subseteq columns /\ Len(filtered_df) = 0) => pc # "raised"

\* a load the claim calls malformed
Malformed == ~csv.exists \/ ~(RequiredColumns \subseteq csv.cols)

\* C7 (as claimed): after a malformed load no section is ever begun and the
\* script only ever reaches the top-level failure state.
C7_MalformedLoadFailsFirst ==
    Malformed => steps = <<>> /\ pc \notin {"raised", "done"}

\* the exception e is also raised, at the same step, over the columns cols
AlsoRaisedWith(e, cols, view) ==
    CASE e.at = "filter"      -> WidgetsError(cols) = e
      [] e.at = "key_metrics" -> KeyMetricsError(cols) = e
      [] e.at = "price"       -> PriceAnalysisError(cols) = e
      [] e.at = "location"    -> \E selected_cities \in Multiselect(Unique(view, "City")) :
                                    LocationError(cols, selected_cities) = e
      [] e.at = "features"    -> FeaturesError(cols, df) = e
      [] e.at = "insights"    -> InsightsError(cols, view) = e
      [] OTHER                -> FALSE

\* the column whose absence skips a section
SectionColumns(name) ==
    CASE name = "Furnishing" -> {"Furnished_Status"}
      [] name = "Parking"    -> {"Parking_Space"}
      [] name = "Amenities"  -> {"Amenities"}
      [] name = "Hierarchy"  -> {"State", "City", "Locality"}
      [] OTHER               -> {}

OptionalSections == {"Furnishing", "Parking", "Amenities", "Hierarchy"}

\* C8: a section that needs an optional column is shown when the column is
\* there and skipped when it is not; an exception never names an optional
\* column, and a step that raises raises the same with every optional column
\* present; a run that ends has met all the optional sections.
C8_OptionalColumnsDegrade ==
    /\ \A i \in 1..Len(sections) :
          sections[i].name \in OptionalSections =>
              sections[i].shown = (SectionColumns(sections[i].name) \subseteq columns)
    /\ pc = "raised" =>
          /\ error.key \notin OptionalColumns
          /\ AlsoRaisedWith(error, columns \cup OptionalColumns, filtered_df)
    /\ (pc = "done" /\ "City" \in columns) =>
          {sections[i].name : i \in 1..Len(sections)} \cap OptionalSections = OptionalSections

\* C8 witness: a run over a file with none of the optional columns has ended
\* with all four sections skipped.
C8_Witness ==
    /\ pc = "done"
    /\ columns = RequiredColumns
    /\ \A i \in 1..Len(sections) :
          sections[i].name \in OptionalSections => ~sections[i].shown

\* t shows a value of the highest count in vals, the smallest of them
IsSmallestMostFrequent(t, vals) ==
    /\ t.kind = "num" /\ t.sign = ""
    /\ t.mag \in Values(vals)
    /\ \A w \in Values(vals) :
          \/ Count(vals, t.mag) > Count(vals, w)
          \/ Count(vals, t.mag) = Count(vals, w) /\ t.mag <= w

\* C9: over a view of at least one record, the most common BHK of the key
\* metrics, and of the popular-configuration insight, is a BHK value of the
\* highest frequency in the view, and the smallest of those.
C9_MostCommonBhk ==
    Len(filtered_df) > 0 =>
        /\ \A m \in MetricsOf({"Most Common BHK"}) :
              IsSmallestMostFrequent(m.value, Column(filtered_df, "BHK"))
        /\ \A i \in 1..Len(insights) :
              insights[i].rule = "Popular Configuration" =>
                  IsSmallestMostFrequent(insights[i].values[1], Column(filtered_df, "BHK"))

\* C9 witness: the run has ended over a view whose BHK values tie, the larger
\* value coming first.
C9_Witness ==
    /\ pc = "done"
    /\ Len(filtered_df) = 2
    /\ filtered_df[1].bhk > filtered_df[2].bhk
    /\ MetricsOf({"Most Common BHK"}) # {}

\* the number a formatted text shows
Shown(t) == IF t.sign = "-" THEN -t.mag ELSE t.mag

\* t shows mean(vals) - mean(base) to the nearest integer, with its sign; nan
\* when vals is empty
IsMeanDelta(t, vals, base) ==
    IF Len(vals) = 0 THEN t.kind = "nan"
    ELSE LET diff  == SumSeq(vals) * Len(base) - SumSeq(base) * Len(vals)
             scale == Len(vals) * Len(base)
         IN  /\ t.kind = "num"
             /\ t.sign = (IF diff < 0 THEN "-" ELSE "+")
             /\ 2 * Abs(Shown(t) * scale - diff) <= scale

\* C10: each of the record count and the three means shows a delta exactly
\* when the view and the dataset differ in length, and the delta is then the
\* metric of the view minus the metric of the dataset; else it is empty.
C10_DeltaIffLengthsDiffer ==
    /\ \A m \in MetricsOf(MeanLabelSet \cup {"Total Properties"}) :
          (m.delta = EmptyText) <=> (Len(filtered_df) = Len(df))
    /\ Len(filtered_df) # Len(df) =>
          /\ \A m \in MetricsOf({"Total Properties"}) :
                m.delta.kind = "num" /\ Shown(m.delta) = Len(filtered_df) - Len(df)
          /\ \A k \in 1..3 : \A m \in MetricsOf({MeanLabels[k]}) :
                IsMeanDelta(m.delta, Column(filtered_df, MeanColumns[k]),
                            Column(df, MeanColumns[k]))

\* C10 witness: the key metrics of a view that dropped records show a mean
\* price below the dataset's.
C10_Witness ==
    /\ pc = "price"
    /\ 0 < Len(filtered_df) /\ Len(filtered_df) < Len(df)
    /\ \E m \in MetricsOf({"Avg Price"}) : m.delta.sign = "-" /\ m.delta.mag > 0

-----------------------------------------------------------------------------
(* The insights *)

\* the rules of display_insights_summary in the order of their code
RuleOrder ==
    <<"Price Distribution", "Size-Price Relationship", "Most Expensive City",
      "Popular Configuration", "Price Range">>

RuleRank(rule) == CHOOSE k \in 1..Len(RuleOrder) : RuleOrder[k] = rule

\* C13: once the insight step has run over a view of at least one record it
\* has ended without an exception and left between one and five insights, each
\* of a known rule, in strictly increasing rule order (so at most one per rule
\* and in the fixed order), the price-per-area range being the last.
C13_InsightsOrdered ==
    (Len(filtered_df) > 0 /\ steps # <<>> /\ steps[Len(steps)] = "insights") =>
        /\ pc = "done"
        /\ Len(insights) \in 1..5
        /\ \A i \in 1..Len(insights) : \E k \in 1..Len(RuleOrder) : insights[i].rule = RuleOrder[k]
        /\ \A i, j \in 1..Len(insights) :
              i < j => RuleRank(insights[i].rule) < RuleRank(insights[j].rule)
        /\ insights[Len(insights)].rule = "Price Range"

\* C13 witness: the step has emitted some rules and suppressed the
\* price-distribution rule, over a view of at least one record.
C13_Witness ==
    /\ pc = "done"
    /\ Len(filtered_df) > 0
    /\ Len(insights) = 4
    /\ insights[1].rule = "Size-Price Relationship"

-----------------------------------------------------------------------------
(* The ranges of the filter *)

-----------------------------------------------------------------------------
(* The amenities table *)

\* the sum of the persisted prices per area of the records of view
PpsSum(view) == SumSeq(Column(view, "Price_per_SqFt"))

\* C11: once the feature step has run over a view with the Amenities column,
\* the step has raised no division fault, and each keyword some record of the
\* view has is given one row whose premium is 0 when no record lacks the keyword or the
\* records lacking it have a mean price per area of zero, and is otherwise
\* (mean with / mean without - 1) * 100.
C11_AmenityPremium ==
    ("features" \in {steps[i] : i \in 1..Len(steps)} /\ "Amenities" \in columns) =>
        /\ error.kind # "ZeroDivisionError"
        /\ \A k \in 1..Len(common_amenities) :
              LET with    == WithAmenity(filtered_df, common_amenities[k])
                  without == WithoutAmenity(filtered_df, common_amenities[k])
                  rows    == {i \in 1..Len(amenity_analysis) :
                                 amenity_analysis[i].Amenity = common_amenities[k]}
              IN  with # <<>> =>
                    /\ Cardinality(rows) = 1
                    /\ \A i \in rows :
                          IF without = <<>> \/ PpsSum(without) = 0
                            THEN amenity_analysis[i].Premium = Int2F(0)
                            ELSE amenity_analysis[i].Premium =
                                   Frac(100 * (PpsSum(with) * Len(without)
                                                 - PpsSum(without) * Len(with)),
                                        PpsSum(without) * Len(with))

\* C11 witness: a table with a keyword that every record of the view has and
\* a keyword whose other records have a mean price per area of zero, both
\* with the premium 0.
C11_Witness ==
    /\ pc = "correlation"
    /\ \E i \in 1..Len(amenity_analysis) :
          /\ WithoutAmenity(filtered_df, amenity_analysis[i].Amenity) = <<>>
          /\ amenity_analysis[i].Premium = Int2F(0)
    /\ \E i \in 1..Len(amenity_analysis) :
          /\ WithoutAmenity(filtered_df, amenity_analysis[i].Amenity) # <<>>
          /\ amenity_analysis[i].Without = Int2F(0)
          /\ amenity_analysis[i].Premium = Int2F(0)

-----------------------------------------------------------------------------
(* The tables by city *)

\* the cities of the view
Cities == Unique(filtered_df, "City")

\* the mean price of each city of the view
MeanPrices == [g \in Cities |-> GroupMean(filtered_df, "City", "Price_in_Lakhs", g)]

\* the mean price of each city of the view, to two decimals
RoundedMeanPrices == [g \in Cities |-> Round2(MeanPrices[g])]

\* the number of records of each city of the view
CityCardinalities == [g \in Cities |-> Int2F(Count(Column(filtered_df, "City"), g))]

\* the group g with the value v goes before the group h with the value w: by
\* value, the greater first, then by label
GoesBefore(g, v, h, w) == FLess(w, v) \/ (v = w /\ LexRank(g) < LexRank(h))

\* the table t of top n groups lists min(n, number of groups) cities of the
\* view, each once and with its value under value, in descending order of
\* value and then by label, and no city left out goes before a listed one
IsTopN(t, n, value) ==
    /\ Len(t) = (IF Cardinality(Cities) < n THEN Cardinality(Cities) ELSE n)
    /\ \A k \in 1..Len(t) : t[k].label \in Cities /\ t[k].value = value[t[k].label]
    /\ \A k, l \in 1..Len(t) :
          k < l => GoesBefore(t[k].label, t[k].value, t[l].label, t[l].value)
    /\ \A g \in Cities \ {t[k].label : k \in 1..Len(t)} : \A k \in 1..Len(t) :
          GoesBefore(t[k].label, t[k].value, g, value[g])

\* C15 (as claimed): once the location step has run over a view with a City
\* column, the top 10 cities by mean price, the top 15 cities by count and
\* the top 10 rows of the city statistics are each the top groups of the
\* view in descending order of the sort attribute, equal values in the
\* lexicographic order of the labels.
C15_TopNGroups ==
    ("location" \in {steps[i] : i \in 1..Len(steps)} /\ RequiredColumns \subseteq columns) =>
        /\ IsTopN(city_avg_price, 10, MeanPrices)
        /\ IsTopN(city_counts, 15, CityCardinalities)
        /\ IsTopN(city_stats, 10, RoundedMeanPrices)

-----------------------------------------------------------------------------
(* The correlation step *)

Dim == Len(corr_matrix.cols)

\* C12 (as claimed): the matrix the correlation step computes is symmetric
\* and every entry of its diagonal is 1.0.
C12_SymmetricUnitDiagonal ==
    corr_matrix # NoMatrix =>
        \A i, j \in 1..Dim :
            /\ corr_matrix.at[i][j] = corr_matrix.at[j][i]
            /\ corr_matrix.at[i][i] = One

\* the pairs of two different attributes of the matrix, each as a set
Pairs == {{corr_matrix.cols[i], corr_matrix.cols[j]} : i, j \in 1..Dim} \ {{c} : c \in NumericColumns}

\* the coefficient the matrix holds for the attributes a and b
At(a, b) ==
    LET i == CHOOSE k \in 1..Dim : corr_matrix.cols[k] = a
        j == CHOOSE k \in 1..Dim : corr_matrix.cols[k] = b
    IN  corr_matrix.at[i][j]

PairOf(e) == {e.var1, e.var2}

\* the pairs of the list s
Listed(s) == {PairOf(s[k]) : k \in 1..Len(s)}

\* C17 (as claimed): the top positive list has at most five entries, each a
\* pair of two different attributes, no pair twice; no pair left out has a
\* greater coefficient than a listed one, nor any coefficient at all while
\* the list has fewer than five entries; and the list is in descending order.
C17_TopPositivePairs ==
    corr_matrix # NoMatrix =>
        /\ Len(top_pos) <= 5
        /\ \A k \in 1..Len(top_pos) : top_pos[k].var1 # top_pos[k].var2
        /\ \A k, l \in 1..Len(top_pos) : k # l => PairOf(top_pos[k]) # PairOf(top_pos[l])
        /\ \A pr \in Pairs \ Listed(top_pos) : \A a, b \in pr :
              (a # b /\ ~At(a, b).nan) =>
                  /\ Len(top_pos) = 5
                  /\ \A k \in 1..Len(top_pos) : ~CoefLess(top_pos[k].corr, At(a, b))
        /\ \A k, l \in 1..Len(top_pos) :
              k < l => ~CoefLess(top_pos[k].corr, top_pos[l].corr)

\* the places of the unstacked matrix the list s does not show, s taken as
\* entries under (column, row)
Unlisted(s) ==
    {e \in {Unstack(corr_matrix)[k] : k \in 1..(Dim * Dim)} :
        \A k \in 1..Len(s) : s[k].var1 # e.var1 \/ s[k].var2 # e.var2}

\* C18 (as claimed): the top negative list has at most five entries, no
\* coefficient of the matrix left out is below a listed one, and the list is
\* in ascending order, the most negative coefficient first.
C18_TopNegativePairs ==
    corr_matrix # NoMatrix =>
        /\ Len(top_neg) <= 5
        /\ \A e \in Unlisted(top_neg) : \A k \in 1..Len(top_neg) :
              ~CoefLess(e.corr, top_neg[k].corr)
        /\ \A k, l \in 1..Len(top_neg) :
              k < l => ~CoefLess(top_neg[l].corr, top_neg[k].corr)

\* the attributes of the matrix other than price
Others == {corr_matrix.cols[k] : k \in 1..Dim} \ {"Price_in_Lakhs"}

\* C19 (as claimed): the attribute shown as Strongest Positive is not price
\* and no other attribute has a greater coefficient against price; the one
\* shown as Strongest Negative is not price and no other attribute has a
\* smaller one; when some attribute has a coefficient against price, the two
\* shown have one too.
C19_StrongestNeverPrice ==
    corr_metrics # <<>> =>
        /\ corr_metrics[1].value \in Others
        /\ corr_metrics[2].value \in Others
        /\ \A b \in Others :
              /\ ~CoefLess(corr_metrics[1].delta, At(b, "Price_in_Lakhs"))
              /\ ~CoefLess(At(b, "Price_in_Lakhs"), corr_metrics[2].delta)
              /\ ~At(b, "Price_in_Lakhs").nan =>
                    (~corr_metrics[1].delta.nan /\ ~corr_metrics[2].delta.nan)

\* the sums the size-price coefficient of the view is made of: r * r is
\* sxy * sxy / (sxx * syy)
SizePriceSums ==
    LET dx == Deviations(Column(filtered_df, "Size_in_SqFt"))
        dy == Deviations(Column(filtered_df, "Price_in_Lakhs"))
    IN  [sxy2 |-> Dot(dx, dy) * Dot(dx, dy), sxxsyy |-> Dot(dx, dx) * Dot(dy, dy)]

\* C20: the label of the size-price correlation is Strong exactly when
\* |r| > 0.7, Moderate exactly when 0.3 < |r| <= 0.7, and Weak otherwise (an
\* undefined r included).
C20_LabelPartition ==
    corr_metrics # <<>> =>
        LET sums    == SizePriceSums
            defined == sums.sxxsyy # 0
            label   == corr_metrics[3].delta
        IN  /\ label \in {"Strong", "Moderate", "Weak"}
            /\ label = "Strong" <=> (defined /\ 100 * sums.sxy2 > 49 * sums.sxxsyy)
            /\ label = "Moderate" <=>
                  (defined /\ 100 * sums.sxy2 > 9 * sums.sxxsyy
                           /\ 100 * sums.sxy2 <= 49 * sums.sxxsyy)

\* C20 witness: a view whose size-price correlation is 0.7 or -0.7 is
\* labelled Moderate.
C20_Witness ==
    /\ corr_metrics # <<>>
    /\ SizePriceSums.sxxsyy # 0
    /\ 100 * SizePriceSums.sxy2 = 49 * SizePriceSums.sxxsyy
    /\ corr_metrics[3].delta = "Moderate"

-----------------------------------------------------------------------------
(* The order of the steps *)

\* the calls of run() after the emptiness check, in order
StepOrder ==
    <<"filter", "key_metrics", "price", "location", "features", "correlation",
      "explorer", "insights">>

IsPrefix(s, t) == Len(s) <= Len(t) /\ \A i \in 1..Len(s) : s[i] = t[i]

\* C16: the steps begun so far are a prefix of the fixed order (the filter
\* first and once, the insights last); any output of a section exists only
\* after the filter step; a run that ends has gone through every step; and
\* the view changes only in the filter step, so every later step reads the
\* view that one evaluation returned.
C16_FilterOnceThenSections ==
    /\ [](/\ IsPrefix(steps, StepOrder)
          /\ (metrics # <<>> \/ sections # <<>> \/ insights # <<>>) =>
                (steps # <<>> /\ steps[1] = "filter")
          /\ pc = "done" => steps = StepOrder)
    /\ [][filtered_df' # filtered_df => (pc = "apply" /\ steps = <<"filter">>)]_vars

\* C16 witness: a run over a loaded dataset has ended, every step having read
\* a view that dropped some records.
C16_Witness ==
    /\ pc = "done"
    /\ steps = StepOrder
    /\ 0 < Len(filtered_df) /\ Len(filtered_df) < Len(df)

-----------------------------------------------------------------------------
(* The size-price insight *)

\* the size-price coefficient of the view
SizePriceOf(view) == Coef(Column(view, "Size_in_SqFt"), Column(view, "Price_in_Lakhs"))

\* r > 0.5, r < 0, and the rest: 0 <= r <= 0.5 or r undefined
AboveHalf(r) == ~r.nan /\ r.sgn = 1 /\ 4 * r.n > r.d

BelowZero(r) == ~r.nan /\ r.sgn = -1

\* the wordings of the size-price insights emitted, in their order
SizePriceWordings ==
    LET emitted == SelectSeq(insights, LAMBDA i : i.rule = "Size-Price Relationship")
    IN  [k \in 1..Len(emitted) |-> emitted[k].wording]

\* C21: when the insights step has ended without an exception, the size-price
\* rule has emitted exactly one insight worded "strong positive" if the
\* size-price correlation of the view is above 0.5, exactly one worded
\* "negative" if it is below 0, and none if it lies in 0..0.5 (both ends
\* included) or is undefined; so never both wordings.
C21_SizePriceInsight ==
    (pc = "done" /\ steps # <<>> /\ steps[Len(steps)] = "insights") =>
        LET r == SizePriceOf(filtered_df)
        IN  /\ AboveHalf(r) => SizePriceWordings = <<"strong positive">>
            /\ BelowZero(r) => SizePriceWordings = <<"negative">>
            /\ (~AboveHalf(r) /\ ~BelowZero(r)) => SizePriceWordings = <<>>
            /\ Len(SizePriceWordings) <= 1

\* C21 witness: the insights step has ended over a view whose size-price
\* correlation is exactly 0.5, and the rule has emitted nothing.
C21_Witness ==
    /\ pc = "done" /\ steps # <<>> /\ steps[Len(steps)] = "insights"
    /\ SizePriceOf(filtered_df) = [nan |-> FALSE, sgn |-> 1, n |-> 1, d |-> 4]
    /\ SizePriceWordings = <<>>

-----------------------------------------------------------------------------
(* The rows of the amenities table *)

\* two characters that are the same letter, whatever their case
CasePairs ==
    { <<"G", "g">>, <<"P", "p">>, <<"C", "c">>, <<"S", "s">>, <<"L", "l">>, <<"B", "b">> }

SameLetter(a, b) == a = b \/ <<a, b>> \in CasePairs \/ <<b, a>> \in CasePairs

\* the keyword stands somewhere in the amenities text of the record r
Matches(r, keyword) ==
    /\ ~r.amenities.na
    /\ \E from \in 1..Len(r.amenities.text) :
          /\ from + Len(keyword) - 1 <= Len(r.amenities.text)
          /\ \A j \in 1..Len(keyword) : SameLetter(r.amenities.text[from + j - 1], keyword[j])

\* the records of the view the k-th reference keyword is matched by
MatchedBy(k) == {i \in 1..Len(filtered_df) : Matches(filtered_df[i], common_amenities[k])}

\* the places in the reference list of the keywords some record matches
MatchedKeywords ==
    SelectSeq([k \in 1..Len(common_amenities) |-> k], LAMBDA k : MatchedBy(k) # {})

\* C22: once the feature step has ended, without an exception, over a view
\* with the Amenities column, the table has one row for each reference
\* keyword that some record of the view matches (as a substring, whatever the
\* case) and no other row, in the order of the reference list; the Count of a
\* row is the number of matching records, between 1 and the size of the view,
\* and its Percentage is above 0 and at most 100.
C22_AmenityRows ==
    ("features" \in {steps[i] : i \in 1..Len(steps)}
        /\ error.at # "features" /\ "Amenities" \in columns) =>
        /\ Len(amenity_analysis) = Len(MatchedKeywords)
        /\ \A i \in 1..Len(amenity_analysis) :
              LET row == amenity_analysis[i]
              IN  /\ row.Amenity = common_amenities[MatchedKeywords[i]]
                  /\ row.Count = Cardinality(MatchedBy(MatchedKeywords[i]))
                  /\ 1 <= row.Count /\ row.Count <= Len(filtered_df)
                  /\ ~row.Percentage.nan
                  /\ FLess(Int2F(0), row.Percentage)
                  /\ ~FLess(Int2F(100), row.Percentage)
                  /\ row.Percentage = Frac(100 * row.Count, Len(filtered_df))

\* C22 witness: a table of two rows or more that skips a reference keyword no
\* record matches, with a keyword matched in another case than the list
\* writes it, and a keyword that some records only of the view match.
C22_Witness ==
    /\ pc = "correlation"
    /\ Len(amenity_analysis) >= 2
    /\ \E i \in 1..(Len(amenity_analysis) - 1) :
          MatchedKeywords[i + 1] > MatchedKeywords[i] + 1
    /\ \E i \in 1..Len(amenity_analysis) :
          /\ amenity_analysis[i].Amenity = <<"P", "a", "r", "k">>
          /\ amenity_analysis[i].Count < Len(filtered_df)

-----------------------------------------------------------------------------

Next ==
    \/ load_data
    \/ run
    \/ display_sidebar_filters_widgets
    \/ display_sidebar_filters_apply
    \/ display_key_metrics
    \/ display_price_analysis
    \/ display_location_analysis
    \/ display_property_features_analysis
    \/ display_correlation_analysis
    \/ display_data_explorer
    \/ display_insights_summary

Spec == Init /\ [][Next]_vars

\* the state after construction over one of the data files in files
InitWith(files) ==
    /\ csv \in files
    /\ pc = "init"
    /\ df = <<>>
    /\ columns = {}
    /\ header = <<>>
    /\ criteria = NoCriteria
    /\ filtered_df = <<>>
    /\ steps = <<>>
    /\ metrics = <<>>
    /\ sections = <<>>
    /\ insights = <<>>
    /\ error = NoError
    /\ city_avg_price = <<>>
    /\ city_counts = <<>>
    /\ city_stats = <<>>
    /\ amenity_analysis = <<>>
    /\ corr_matrix = NoMatrix
    /\ top_pos = <<>>
    /\ top_neg = <<>>
    /\ corr_metrics = <<>>

\* the script over the small complete data files
InitCompose ==
    /\ Init
    /\ csv.exists /\ csv.cols = AllColumns /\ Len(csv.rows) <= MaxRowsCompose

SpecCompose == InitCompose /\ [][Next]_vars

\* the data files made for the amenities table
AmenityFiles ==
    {File(DatasetHeader, AllColumns, Frame(ls)) : ls \in SeqsUpTo(AmenityListings, MaxRowsAmenities)}

\* the script over the data files made for the amenities table
InitAmenities == InitWith(AmenityFiles)

SpecAmenities == InitAmenities /\ [][Next]_vars

\* the data files made for the correlation step
CorrelationFiles ==
    {File(DatasetHeader, AllColumns, Frame(CorrelationListings(prices, n))) :
        prices \in PriceOrders, n \in 1..MaxRowsCorrelation}

\* the script over the data files made for the correlation step
InitCorrelation == InitWith(CorrelationFiles)

SpecCorrelation == InitCorrelation /\ [][Next]_vars

=============================================================================
